---- MODULE Spec2Model ----
(***************************************************************************)
(* bluesky-cli: the BlueSky API client (src/src/bluesky_cli/api.py) and    *)
(* the stdin/stdout tool server built on it (src/src/server.py).           *)
(*                                                                         *)
(* Three specifications share the client's session fields:                 *)
(*   SpecFetch   one call of get_all_followers / get_all_follows against   *)
(*               a paged upstream, one action per loop iteration;          *)
(*   SpecClient  one BlueSkyAPI object: logins and data operations;        *)
(*   Spec        the server process: start-up login, then the RPC loop.    *)
(*                                                                         *)
(* Python's None is the string "None"; every other string is itself.       *)
(***************************************************************************)
EXTENDS Integers, Sequences, FiniteSets, TLC

VARIABLES
    bsky_auth_token,   \* api.py:26  self.bsky_auth_token
    bsky_headers,      \* api.py:27  self.bsky_headers ("None" or the Authorization value)
    bsky_did,          \* api.py:28  self.bsky_did
    endpoint,          \* which of get_all_followers / get_all_follows is called
    max_results,       \* argument max_results of the paged fetch
    batch_size,        \* argument batch_size of the paged fetch
    upstream,          \* the pages the upstream serves, in order
    fetch_pc,          \* position in the paged fetch: idle, loop, post, done
    all_followers,     \* local all_followers / all_follows
    cursor,            \* local cursor
    page_requests,     \* the page requests issued by this call, in order
    page_responses,    \* what each of them was answered with
    fetch_ret,         \* how the call ended: returned list or raised error
    authenticated,     \* ghost: a login exchange has succeeded on this api object
    config,            \* utils.py:122-125  the config file's bsky_identifier, bsky_password
    last_call,         \* the last login or data operation made on the client, and its outcome
    BSKY_HANDLE,       \* server.py:23
    BSKY_PASSWORD,     \* server.py:24
    ai_client,         \* api.py:23, 36  whether a completion client is configured
    server_pc,         \* server.py: start-up, the RPC loop running, the loop left
    lines_read,        \* number of stdin lines read by run_server
    stdout,            \* the response lines printed: the input line each answers, and its kind
    last_line          \* the last loop iteration: the request, what was called, the answer

fetchVars == <<endpoint, max_results, batch_size, upstream, fetch_pc,
               all_followers, cursor, page_requests, page_responses, fetch_ret>>
sessionVars == <<bsky_auth_token, bsky_headers, bsky_did>>
clientVars == <<authenticated, config, last_call>>
serverVars == <<BSKY_HANDLE, BSKY_PASSWORD, ai_client, server_pc, lines_read,
                stdout, last_line>>
vars == <<sessionVars, fetchVars, clientVars, serverVars>>

----------------------------------------------------------------------------
(* Bounds of the model *)

MaxPages == 2
MaxPageItems == 2
MaxCap == 3
MaxLines == 2

----------------------------------------------------------------------------
(* Python values *)

None == "None"

\* Python truthiness of an Optional[str]: None and "" are falsy.
Truthy(v) == v # None /\ v # ""

Min(a, b) == IF a < b THEN a ELSE b

\* list[:n] for n >= 0
Take(s, n) == SubSeq(s, 1, Min(n, Len(s)))

RECURSIVE Flatten(_)
Flatten(ss) == IF ss = <<>> THEN <<>> ELSE Head(ss) \o Flatten(Tail(ss))

----------------------------------------------------------------------------
(* The paged upstream (app.bsky.graph.getFollowers / getFollows) *)

\* The cursor page i hands out when it has a next page.
CursorTok(i) == "c" \o ToString(i)

\* The items of page i when it carries n of them: told apart by page and place.
PageItems(i, n) == [j \in 1..n |-> <<i, j>>]

\* What one page request can be answered with: a failure (transport error,
\* non-2xx status, a body that is not JSON, or JSON of the wrong shape), or a
\* page of items with a cursor that is absent, empty or present.
PageAnswers(i) ==
    {[kind |-> "fail", items |-> <<>>, cursor |-> None]}
    \cup {[kind |-> "ok", items |-> PageItems(i, n), cursor |-> c] :
            n \in 0..MaxPageItems, c \in {None, "", CursorTok(i)}}

\* A page after which the upstream has nothing more to serve.
IsLastPage(p) == p.kind = "fail" \/ ~Truthy(p.cursor)

\* The upstreams of k pages: page i answers PageAnswers(i), and the final page
\* is one the walk cannot go past.
RECURSIVE PagePrefixes(_)
PagePrefixes(k) ==
    IF k = 0 THEN {<<>>}
    ELSE {Append(u, p) : u \in PagePrefixes(k - 1), p \in PageAnswers(k)}

UpstreamsOfLen(k) == {u \in PagePrefixes(k) : IsLastPage(u[k])}

Upstreams(maxPages) == UNION {UpstreamsOfLen(k) : k \in 1..maxPages}

\* The page a request is answered with: page 1 when it carries no cursor,
\* else the page after the one that handed the cursor out.
Serve(u, req) ==
    IF req.cursor = None THEN u[1]
    ELSE LET i == CHOOSE j \in 1..Len(u) : u[j].cursor = req.cursor IN u[i + 1]

----------------------------------------------------------------------------
(* BlueSkyAPI.get_all_followers / get_all_follows *)

BatchSizes == {100, 101}
Endpoints == {"followers", "follows"}

\* api.py:217-219  params = {"actor": handle, "limit": batch_size} (+ cursor)
PageParams(ep, bs, cur) ==
    [endpoint |-> ep, limit |-> bs, cursor |-> IF Truthy(cur) THEN cur ELSE None]

\* Mutant of LoopCond: the loop does not look at the cap.
LoopCondNoCap(cap, collected) == TRUE

\* api.py:216  while max_results == 0 or len(all_followers) < max_results
LoopCond(cap, collected) == cap = 0 \/ Len(collected) < cap

\* Mutant of Truncate: the list is returned as collected.
TruncateOff(cap, collected) == collected

\* api.py:232-233  if max_results > 0: all_followers = all_followers[:max_results]
Truncate(cap, collected) == IF cap > 0 THEN Take(collected, cap) ELSE collected

\* api.py:210-214  the guard and the locals' initial values
FetchCall ==
    /\ fetch_pc \in {"idle", "done"}
    /\ page_requests' = <<>>
    /\ page_responses' = <<>>
    /\ all_followers' = <<>>
    /\ cursor' = None
    /\ IF ~Truthy(bsky_headers)
         THEN /\ fetch_pc' = "done"
              /\ fetch_ret' = [kind |-> "raised", error |-> "Not authenticated.",
                               value |-> <<>>]
         ELSE /\ fetch_pc' = "loop"
              /\ fetch_ret' = [kind |-> "running", error |-> "", value |-> <<>>]
    /\ last_call' = [op |-> "get_all_" \o endpoint, http |-> <<>>,
                     raised |-> ~Truthy(bsky_headers),
                     error |-> IF Truthy(bsky_headers) THEN "" ELSE "Not authenticated."]
    /\ UNCHANGED <<authenticated, config, serverVars, sessionVars, endpoint,
                   max_results, batch_size, upstream>>

\* Mutant of PageStep: a cursorless page does not end the loop.
PageStepNoBreak(collected, cur, resp) ==
    IF resp.kind = "ok"
      THEN [all |-> collected \o resp.items, cursor |-> resp.cursor, pc |-> "loop"]
      ELSE [all |-> collected, cursor |-> cur, pc |-> "post"]

\* Mutant of PageStep: the error handler goes round the loop again.
PageStepRetry(collected, cur, resp) ==
    IF resp.kind = "ok"
      THEN [all |-> collected \o resp.items, cursor |-> resp.cursor,
            pc |-> IF ~Truthy(resp.cursor) THEN "post" ELSE "loop"]
      ELSE [all |-> collected, cursor |-> cur, pc |-> "loop"]

\* api.py:222-230  what one answered request does to the locals: a page is
\* appended whole and its cursor kept, and the loop is left when the cursor is
\* falsy; an exception anywhere in the try block is printed and leaves the loop
\* with the locals as they were.
PageStep(collected, cur, resp) ==
    IF resp.kind = "ok"
      THEN [all |-> collected \o resp.items, cursor |-> resp.cursor,
            pc |-> IF ~Truthy(resp.cursor) THEN "post" ELSE "loop"]
      ELSE [all |-> collected, cursor |-> cur, pc |-> "post"]

\* api.py:216-230  one iteration of the loop
FetchPage ==
    /\ fetch_pc = "loop"
    /\ LoopCond(max_results, all_followers)
    /\ LET req == PageParams(endpoint, batch_size, cursor)
           resp == Serve(upstream, req)
           step == PageStep(all_followers, cursor, resp)
       IN /\ page_requests' = Append(page_requests, req)
          /\ page_responses' = Append(page_responses, resp)
          /\ all_followers' = step.all
          /\ cursor' = step.cursor
          /\ fetch_pc' = step.pc
    /\ UNCHANGED <<clientVars, serverVars, sessionVars, endpoint, max_results, batch_size, upstream, fetch_ret>>

\* api.py:216, 232-234  the loop is left and the list is cut and returned
FetchFinish ==
    /\ \/ fetch_pc = "post"
       \/ fetch_pc = "loop" /\ ~LoopCond(max_results, all_followers)
    /\ fetch_pc' = "done"
    /\ fetch_ret' = [kind |-> "returned", error |-> "",
                     value |-> Truncate(max_results, all_followers)]
    /\ UNCHANGED <<clientVars, serverVars, sessionVars, endpoint, max_results, batch_size, upstream,
                   all_followers, cursor, page_requests, page_responses>>

----------------------------------------------------------------------------
(* BlueSkyAPI: login and the single-request data operations *)

\* Authorization header of a session holding token tok (api.py:62-65).
Headers(tok) == "Bearer " \o tok

\* What the createSession exchange can be answered with: a failure (transport
\* error, non-2xx status, a body that is not a JSON object), or a JSON object
\* without a usable accessJwt (absent or ""; its did is then never read), or a
\* JSON object with the token of login k and either no did or the did of login k.
LoginAnswers ==
    {[kind |-> "fail", accessJwt |-> None, did |-> None]}
    \cup {[kind |-> "ok", accessJwt |-> t, did |-> None] : t \in {None, ""}}
    \cup {[kind |-> "ok", accessJwt |-> "jwt1", did |-> d] : d \in {None, "did1"}}
    \cup {[kind |-> "ok", accessJwt |-> "jwt2", did |-> d] : d \in {None, "did2"}}

\* Python's `a or b` on Optional[str]
Or(a, b) == IF Truthy(a) THEN a ELSE b

\* The outcome of an operation that touched nothing.
Untouched(tok, hdr, did) ==
    [token |-> tok, headers |-> hdr, did |-> did, http |-> <<>>,
     raised |-> FALSE, error |-> "", success |-> FALSE]

\* api.py:41-68  authenticate_bsky on a session (tok, hdr, did): the fields
\* after it, the requests it issued, and whether and with what it raised.
authenticate_bsky(tok, hdr, did, identifier, password, conf, ans) ==
    LET id == Or(identifier, conf.bsky_identifier)
        pw == Or(password, conf.bsky_password)
    IN IF ~Truthy(id) \/ ~Truthy(pw)
         THEN [Untouched(tok, hdr, did) EXCEPT
                 !.raised = TRUE, !.error = "BlueSky credentials not found."]
       ELSE IF ans.kind = "fail"
         THEN [Untouched(tok, hdr, did) EXCEPT
                 !.http = <<"createSession">>, !.raised = TRUE,
                 !.error = "BlueSky authentication failed: HTTPError"]
       ELSE IF ~Truthy(ans.accessJwt)
         \* line 57 has stored the falsy token before line 59 raises
         THEN [Untouched(tok, hdr, did) EXCEPT
                 !.token = ans.accessJwt,
                 !.http = <<"createSession">>, !.raised = TRUE,
                 !.error = "BlueSky authentication failed: No access token returned"]
       ELSE [token |-> ans.accessJwt, headers |-> Headers(ans.accessJwt),
             did |-> ans.did, http |-> <<"createSession">>,
             raised |-> FALSE, error |-> "", success |-> TRUE]

\* The single-request data operations and what each asks the upstream for.
DataOps == {"get_profile", "get_bsky_posts", "get_followers", "get_follows",
            "search_posts", "search_users"}

EndpointOf(op) ==
    CASE op = "get_profile"    -> "getProfile"
      [] op = "get_bsky_posts" -> "getAuthorFeed"
      [] op = "get_followers"  -> "getFollowers"
      [] op = "get_follows"    -> "getFollows"
      [] op = "search_posts"   -> "searchPosts"
      [] op = "search_users"   -> "searchActors"

NotAuthenticatedError(op) ==
    IF op = "get_profile" THEN "Not authenticated. Call authenticate_bsky() first."
                          ELSE "Not authenticated."

ErrorPrefix(op) ==
    CASE op = "get_profile"    -> "Error fetching profile: "
      [] op = "get_bsky_posts" -> "Error fetching posts: "
      [] op = "get_followers"  -> "Error fetching followers: "
      [] op = "get_follows"    -> "Error fetching follows: "
      [] op = "search_posts"   -> "Error searching posts: "
      [] op = "search_users"   -> "Error searching users: "

\* What a data request can be answered with: a failure, a body with content,
\* or a body with none (no items, no post text).
DataAnswers == {"fail", "ok", "empty"}

\* Mutant of api_get: the operation does not look at the headers.
api_get_unguarded(op, hdr, ans) ==
    IF ans = "fail"
      THEN [http |-> <<EndpointOf(op)>>, raised |-> TRUE,
            error |-> ErrorPrefix(op) \o "HTTPError", data |-> None]
      ELSE [http |-> <<EndpointOf(op)>>, raised |-> FALSE, error |-> "", data |-> ans]

\* api.py:78-102, 118-166  get_profile, get_bsky_posts, get_followers,
\* get_follows, search_posts, search_users: the guard on bsky_headers, then one
\* GET whose failure is re-raised as a RuntimeError.
api_get(op, hdr, ans) ==
    IF ~Truthy(hdr)
      THEN [http |-> <<>>, raised |-> TRUE, error |-> NotAuthenticatedError(op),
            data |-> None]
    ELSE IF ans = "fail"
      THEN [http |-> <<EndpointOf(op)>>, raised |-> TRUE,
            error |-> ErrorPrefix(op) \o "HTTPError", data |-> None]
      ELSE [http |-> <<EndpointOf(op)>>, raised |-> FALSE, error |-> "", data |-> ans]

\* The paged fetch's variables before any call.
FetchIdle ==
    /\ fetch_pc = "idle"
    /\ all_followers = <<>>
    /\ cursor = None
    /\ page_requests = <<>>
    /\ page_responses = <<>>
    /\ fetch_ret = [kind |-> "running", error |-> "", value |-> <<>>]

\* A returned call's locals are gone.
FetchReset ==
    /\ fetch_pc' = "idle"
    /\ all_followers' = <<>>
    /\ cursor' = None
    /\ page_requests' = <<>>
    /\ page_responses' = <<>>
    /\ fetch_ret' = [kind |-> "running", error |-> "", value |-> <<>>]

NoCall == [op |-> "none", http |-> <<>>, raised |-> FALSE, error |-> ""]

\* A caller logs in with the arguments it chooses (cli.py:38 passes none).
ClientLogin ==
    /\ fetch_pc \in {"idle", "done"}
    /\ \E identifier \in {None, "alice"}, password \in {None, "pw"}, ans \in LoginAnswers :
         LET r == authenticate_bsky(bsky_auth_token, bsky_headers, bsky_did,
                                    identifier, password, config, ans)
         IN /\ bsky_auth_token' = r.token
            /\ bsky_headers' = r.headers
            /\ bsky_did' = r.did
            /\ authenticated' = (authenticated \/ r.success)
            /\ last_call' = [op |-> "authenticate_bsky", http |-> r.http,
                             raised |-> r.raised, error |-> r.error]
    /\ FetchReset
    /\ UNCHANGED <<config, endpoint, max_results, batch_size, upstream, serverVars>>

\* A caller makes one of the single-request data operations.
ClientDataOp ==
    /\ fetch_pc \in {"idle", "done"}
    /\ \E op \in DataOps, ans \in DataAnswers :
         LET r == api_get(op, bsky_headers, ans)
         IN last_call' = [op |-> op, http |-> r.http, raised |-> r.raised,
                          error |-> r.error]
    /\ FetchReset
    /\ UNCHANGED <<sessionVars, authenticated, config, endpoint, max_results,
                   batch_size, upstream, serverVars>>

ConfigFiles == [bsky_identifier : {None, "carol"}, bsky_password : {None, "cpw"}]

NoLine ==
    [kind |-> "none", method |-> None, name |-> None, did_before |-> None,
     auth_before |-> FALSE, after_raise |-> FALSE, http |-> <<>>, login |-> "none", entered |-> FALSE,
     raised |-> FALSE, extraction |-> "none",
     envelope |-> [text |-> "", isError |-> FALSE],
     response |-> [kind |-> "none", code |-> 0, message |-> ""], stopped |-> FALSE]

\* The server's variables when no server runs.
ServerOff ==
    /\ BSKY_HANDLE = None
    /\ BSKY_PASSWORD = None
    /\ ai_client = FALSE
    /\ server_pc = "off"
    /\ lines_read = 0
    /\ stdout = <<>>
    /\ last_line = NoLine

\* api.py:21-28  a fresh BlueSkyAPI object
FreshSession ==
    /\ bsky_auth_token = None
    /\ bsky_headers = None
    /\ bsky_did = None
    /\ authenticated = FALSE
    /\ last_call = NoCall

\* One call of the paged fetch, on a fresh object or on one that has logged in.
InitFetch ==
    /\ bsky_headers \in {None, Headers("jwt1")}
    /\ bsky_auth_token = IF bsky_headers = None THEN None ELSE "jwt1"
    /\ bsky_did = IF bsky_headers = None THEN None ELSE "did1"
    /\ authenticated = (bsky_headers # None)
    /\ config = [bsky_identifier |-> None, bsky_password |-> None]
    /\ last_call = NoCall
    /\ endpoint \in Endpoints
    /\ max_results \in 0..MaxCap
    /\ batch_size \in BatchSizes
    /\ upstream \in Upstreams(MaxPages)
    /\ FetchIdle
    /\ ServerOff

NextFetch == FetchCall \/ FetchPage \/ FetchFinish

SpecFetch == InitFetch /\ [][NextFetch]_vars

\* One BlueSkyAPI object used by a caller, against a one-page upstream.
InitClient ==
    /\ FreshSession
    /\ config \in ConfigFiles
    /\ endpoint \in Endpoints
    /\ max_results = MaxCap
    /\ batch_size = 100
    /\ upstream \in UpstreamsOfLen(1)
    /\ FetchIdle
    /\ ServerOff

NextClient == ClientLogin \/ ClientDataOp \/ FetchCall \/ FetchPage \/ FetchFinish

SpecClient == InitClient /\ [][NextClient]_vars

----------------------------------------------------------------------------
(* server.py: the tool dispatcher and the RPC loop *)

\* server.py:179  the JSON-RPC error code of every error response
ErrorCode == -32603

\* server.py:36-72  the tool catalog
ToolNames == {"dream_bsky_get_profile", "dream_bsky_get_feed", "dream_bsky_search",
              "dream_bsky_vibe_check"}

\* The arguments objects a request can carry: the required keys present (with
\* the search type left out, or given as posts or users), or absent.
ArgumentObjects ==
    {[handle |-> "alice", query |-> "cats", type |-> t] : t \in {None, "posts", "users"}}
    \cup {[handle |-> None, query |-> None, type |-> None]}

\* What the completion service can be answered with.
AiAnswers == {"fail", "ok"}

\* The tool result envelope; a result without the isError key reads as falsy.
Envelope(text, isError) == [text |-> text, isError |-> isError]

\* What handling one invocation did: the envelope, the session after it, the
\* requests issued in order, whether a login was tried and succeeded, whether
\* the tool's branch was entered, whether a downstream call raised, and what
\* text extraction was given, if it was called.
Handled(env, tok, hdr, did, http, login, entered, raised, extraction) ==
    [envelope |-> env, token |-> tok, headers |-> hdr, did |-> did, http |-> http,
     login |-> login, entered |-> entered, raised |-> raised,
     extraction |-> extraction]

\* api.py:104-116  get_post_content raises when the feed has no post text
get_post_content(feed) ==
    IF feed = "empty" THEN [raised |-> TRUE, error |-> "No post texts found.", text |-> ""]
                      ELSE [raised |-> FALSE, error |-> "", text |-> "post text"]

\* api.py:168-191  vibe_check raises without a client or when the completion fails
vibe_check(client, ans) ==
    IF ~client
      THEN [raised |-> TRUE, http |-> <<>>,
            error |-> "AI not configured. Set OPENAI_API_KEY, ANTHROPIC_API_KEY, or use Ollama.",
            text |-> ""]
    ELSE IF ans = "fail"
      THEN [raised |-> TRUE, http |-> <<"chat.completions">>,
            error |-> "Error performing vibe check: APIError", text |-> ""]
      ELSE [raised |-> FALSE, http |-> <<"chat.completions">>, error |-> "",
            text |-> "analysis"]

\* Mutant of ErrorExecuting: the envelope is built without the isError flag.
ErrorExecutingNoFlag(name, msg) ==
    Envelope("Error executing " \o name \o ": " \o msg, FALSE)

\* server.py:154-155  the dispatcher's outer except
ErrorExecuting(name, msg) == Envelope("Error executing " \o name \o ": " \o msg, TRUE)

\* Mutant of ToolNotFound: the message does not name the tool.
ToolNotFoundPlain(name) == Envelope("Tool not found", TRUE)

\* server.py:152  no branch matched the name
ToolNotFound(name) == Envelope("Tool not found: " \o name, TRUE)

\* server.py:95-155  the tool branches, run on a session whose headers are hdr:
\* the envelope, the requests issued, whether a downstream call raised, and
\* what get_post_content was given when it was called (a feed with post text,
\* or an empty one).
Dispatch(name, arguments, hdr, client, da, aa) ==
    LET missing(key) ==
            [envelope |-> ErrorExecuting(name, "'" \o key \o "'"), http |-> <<>>,
             raised |-> FALSE, extraction |-> "none"]
        failed(r) ==
            [envelope |-> ErrorExecuting(name, r.error), http |-> r.http, raised |-> TRUE,
             extraction |-> "none"]
        json(r) ==
            [envelope |-> Envelope("json " \o r.http[1] \o " " \o r.data, FALSE),
             http |-> r.http, raised |-> FALSE, extraction |-> "none"]
        one(op) == LET r == api_get(op, hdr, da) IN IF r.raised THEN failed(r) ELSE json(r)
    IN CASE name = "dream_bsky_get_profile" ->
              IF arguments.handle = None THEN missing("handle") ELSE one("get_profile")
         [] name = "dream_bsky_get_feed" ->
              IF arguments.handle = None THEN missing("handle") ELSE one("get_bsky_posts")
         [] name = "dream_bsky_search" ->
              IF arguments.query = None THEN missing("query")
              ELSE IF arguments.type \in {None, "posts"} THEN one("search_posts")
              ELSE one("search_users")
         [] name = "dream_bsky_vibe_check" ->
              IF arguments.handle = None THEN missing("handle")
              ELSE LET feed == api_get("get_bsky_posts", hdr, da)
                       content == get_post_content(feed.data)
                       vibe == vibe_check(client, aa)
                   IN IF feed.raised THEN failed(feed)
                      ELSE IF content.raised
                        THEN [envelope |-> ErrorExecuting(name, content.error),
                              http |-> feed.http, raised |-> TRUE,
                              extraction |-> "empty"]
                      ELSE IF content.text = ""
                        THEN [envelope |->
                                Envelope("No text found for " \o arguments.handle
                                         \o " to analyze.", FALSE),
                              http |-> feed.http, raised |-> FALSE,
                              extraction |-> "empty"]
                      ELSE IF vibe.raised
                        THEN [envelope |->
                                Envelope("AI Analysis failed: " \o vibe.error
                                         \o ". Check API keys.", TRUE),
                              http |-> feed.http \o vibe.http, raised |-> TRUE,
                              extraction |-> "text"]
                      ELSE [envelope |-> Envelope(vibe.text, FALSE),
                            http |-> feed.http \o vibe.http, raised |-> FALSE,
                            extraction |-> "text"]
         [] OTHER -> [envelope |-> ToolNotFound(name),
                      http |-> <<>>, raised |-> FALSE, extraction |-> "none"]

\* Mutant of NoCredentials: the first guard is gone.
NoCredentialsNever(did) == FALSE

\* server.py:85  no identity yet and the environment gives no credentials
NoCredentials(did) == ~Truthy(did) /\ ~(Truthy(BSKY_HANDLE) /\ Truthy(BSKY_PASSWORD))

\* Mutant of AfterLogin: a failed login does not end the invocation.
AfterLoginIgnoringFailure(auth, login, name, arguments, da, aa) ==
    LET d == Dispatch(name, arguments, auth.headers, ai_client, da, aa)
    IN Handled(d.envelope, auth.token, auth.headers, auth.did,
               auth.http \o d.http, login, TRUE, auth.raised \/ d.raised,
               d.extraction)

\* server.py:92-155  what follows the lazy login: its failure is the answer,
\* else the tool's branch runs on the session it left.
AfterLogin(auth, login, name, arguments, da, aa) ==
    LET d == Dispatch(name, arguments, auth.headers, ai_client, da, aa)
    IN IF auth.raised
         THEN Handled(Envelope("Authentication failed: " \o auth.error, TRUE),
                      auth.token, auth.headers, auth.did, auth.http, login, FALSE, TRUE,
                      "none")
         ELSE Handled(d.envelope, auth.token, auth.headers, auth.did,
                      auth.http \o d.http, login, TRUE, d.raised, d.extraction)

\* server.py:84-155  handle_call_tool on the session (tok, hdr, did), with the
\* answers the upstream gives to the login (la), the data request (da) and the
\* completion (aa) should they be asked for.
handle_call_tool(name, arguments, tok, hdr, did, la, da, aa) ==
    IF NoCredentials(did)
      THEN Handled(Envelope("Error: BSKY_HANDLE and BSKY_PASSWORD environment variables not set.",
                            TRUE),
                   tok, hdr, did, <<>>, "none", FALSE, FALSE, "none")
    ELSE LET auth == IF ~Truthy(did)
                       THEN authenticate_bsky(tok, hdr, did, BSKY_HANDLE, BSKY_PASSWORD,
                                              config, la)
                       ELSE Untouched(tok, hdr, did)
             login == IF Truthy(did) THEN "none"
                      ELSE IF auth.success THEN "ok" ELSE "failed"
         IN AfterLogin(auth, login, name, arguments, da, aa)

\* server.py:166, 178-181  the JSON-RPC response built from an envelope
RpcResponse(env) ==
    IF env.isError THEN [kind |-> "error", code |-> ErrorCode, message |-> env.text]
                   ELSE [kind |-> "result", code |-> 0, message |-> env.text]

NoResponse == [kind |-> "none", code |-> 0, message |-> ""]

\* The input lines: end of input, a line that is not a JSON object, and request
\* objects by method (None: no method key) and, for tools/call, by whether
\* params carries both name and arguments.
Methods == {"initialize", "tools/list", "tools/call", "ping", None}
RequestNames == ToolNames \cup {"dream_bsky_post"}

\* What one loop iteration left behind.
Iteration(kind, method, name, before, h, response, stopped) ==
    [kind |-> kind, method |-> method, name |-> name,
     did_before |-> before.did, auth_before |-> before.auth,
     after_raise |-> before.raised,
     http |-> h.http, login |-> h.login, entered |-> h.entered, raised |-> h.raised,
     extraction |-> h.extraction, envelope |-> h.envelope, response |-> response, stopped |-> stopped]

NotHandled ==
    [envelope |-> Envelope("", FALSE), http |-> <<>>, login |-> "none",
     entered |-> FALSE, raised |-> FALSE, extraction |-> "none"]

\* What an iteration finds: the identity held, whether a login has succeeded,
\* and whether the iteration before it saw a downstream call raise.
Before == [did |-> bsky_did, auth |-> authenticated, raised |-> last_line.raised]

\* server.py:20-31  module start: the api object is made and, when both
\* environment variables are set, a login is tried and its failure logged.
ServerStartup ==
    /\ server_pc = "startup"
    /\ server_pc' = "running"
    /\ IF Truthy(BSKY_HANDLE) /\ Truthy(BSKY_PASSWORD)
         THEN \E la \in LoginAnswers :
                LET r == authenticate_bsky(bsky_auth_token, bsky_headers, bsky_did,
                                           BSKY_HANDLE, BSKY_PASSWORD, config, la)
                IN /\ bsky_auth_token' = r.token
                   /\ bsky_headers' = r.headers
                   /\ bsky_did' = r.did
                   /\ authenticated' = (authenticated \/ r.success)
                   /\ last_call' = [op |-> "authenticate_bsky", http |-> r.http,
                                    raised |-> r.raised, error |-> r.error]
         ELSE UNCHANGED <<sessionVars, authenticated, last_call>>
    /\ UNCHANGED <<config, fetchVars, BSKY_HANDLE, BSKY_PASSWORD, ai_client,
                   lines_read, stdout, last_line>>

\* server.py:160-162  readline returns "": the loop is left
ReadEof ==
    /\ server_pc = "running"
    /\ server_pc' = "stopped"
    /\ last_line' = Iteration("eof", None, None, Before, NotHandled, NoResponse, TRUE)
    /\ UNCHANGED <<sessionVars, clientVars, fetchVars, BSKY_HANDLE, BSKY_PASSWORD,
                   ai_client, lines_read, stdout>>

\* server.py:163-164, 177, 186-187  a line that json.loads rejects, that is no
\* JSON object, or a tools/call without params.name or params.arguments: the
\* exception leaves the loop and nothing is printed
ReadBadLine ==
    /\ server_pc = "running"
    /\ lines_read < MaxLines
    /\ lines_read' = lines_read + 1
    /\ server_pc' = "stopped"
    /\ \E kind \in {"malformed", "no_params"} :
         last_line' = Iteration(kind, IF kind = "no_params" THEN "tools/call" ELSE None,
                                None, Before, NotHandled, NoResponse, TRUE)
    /\ UNCHANGED <<sessionVars, clientVars, fetchVars, BSKY_HANDLE, BSKY_PASSWORD,
                   ai_client, stdout>>

\* Mutant of Respond: a request with an unknown method is answered too.
RespondAlways(method, kind, printed) ==
    Append(printed, [id |-> lines_read + 1, kind |-> kind])

\* server.py:168-185  stdout after a request with this method was handled:
\* one line is printed, unless the method is unknown (continue)
Respond(method, kind, printed) ==
    IF method \in {"initialize", "tools/list", "tools/call"}
      THEN Append(printed, [id |-> lines_read + 1, kind |-> kind])
      ELSE printed

\* server.py:163-175, 182-185  a request that is not tools/call
ReadRequest ==
    /\ server_pc = "running"
    /\ lines_read < MaxLines
    /\ lines_read' = lines_read + 1
    /\ \E method \in Methods \ {"tools/call"} :
         LET known == method \in {"initialize", "tools/list"}
             response == IF known THEN [kind |-> "result", code |-> 0, message |-> method]
                                  ELSE NoResponse
         IN /\ stdout' = Respond(method, response.kind, stdout)
            /\ last_line' = Iteration("request", method, None, Before, NotHandled,
                                      response, FALSE)
    /\ UNCHANGED <<sessionVars, clientVars, fetchVars, BSKY_HANDLE, BSKY_PASSWORD,
                   ai_client, server_pc>>

\* The answers to draw for a request that may be issued; one stands for all
\* when it cannot be.
AnswersAsked(possible, answers) ==
    IF possible THEN answers ELSE {CHOOSE a \in answers : TRUE}

\* server.py:176-181, 185  a tools/call request with name and arguments
ReadToolCall ==
    /\ server_pc = "running"
    /\ lines_read < MaxLines
    /\ lines_read' = lines_read + 1
    /\ \E name \in RequestNames, arguments \in ArgumentObjects :
       \E la \in AnswersAsked(~Truthy(bsky_did), LoginAnswers),
          da \in AnswersAsked(name \in ToolNames, DataAnswers),
          aa \in AnswersAsked(name = "dream_bsky_vibe_check" /\ ai_client, AiAnswers) :
         \E h \in {handle_call_tool(name, arguments, bsky_auth_token, bsky_headers,
                                    bsky_did, la, da, aa)} :
            /\ bsky_auth_token' = h.token
            /\ bsky_headers' = h.headers
            /\ bsky_did' = h.did
            /\ authenticated' = (authenticated \/ h.login = "ok")
            /\ stdout' = Respond("tools/call", RpcResponse(h.envelope).kind, stdout)
            /\ last_line' = Iteration("request", "tools/call", name, Before, h,
                                      RpcResponse(h.envelope), FALSE)
    /\ UNCHANGED <<config, last_call, fetchVars, BSKY_HANDLE, BSKY_PASSWORD,
                   ai_client, server_pc>>

\* The server process before its module body runs.
Init ==
    /\ FreshSession
    /\ config \in {c \in ConfigFiles : (c.bsky_identifier = None) = (c.bsky_password = None)}
    /\ BSKY_HANDLE \in {None, "alice"}
    /\ BSKY_PASSWORD \in {None, "pw"}
    /\ ai_client \in BOOLEAN
    /\ server_pc = "startup"
    /\ lines_read = 0
    /\ stdout = <<>>
    /\ last_line = NoLine
    /\ endpoint = "followers"
    /\ max_results = 0
    /\ batch_size = 100
    /\ upstream = <<>>
    /\ FetchIdle

Next == ServerStartup \/ ReadEof \/ ReadBadLine \/ ReadRequest \/ ReadToolCall

Spec == Init /\ [][Next]_vars

----------------------------------------------------------------------------
(* Properties of the paged fetch, checked under SpecFetch *)

\* The pages a walk from page 1 can reach: up to the first page that has no
\* next page.
ReachablePages(u) ==
    LET k == CHOOSE j \in 1..Len(u) :
                 IsLastPage(u[j]) /\ \A h \in 1..(j - 1) : ~IsLastPage(u[h])
    IN SubSeq(u, 1, k)

NoPageFails(u) == \A i \in 1..Len(ReachablePages(u)) : u[i].kind = "ok"

\* Everything the upstream has, in upstream order.
Available(u) == Flatten([i \in 1..Len(ReachablePages(u)) |-> u[i].items])

\* The items of the first n answers of this call, in order.
Received(n) == Flatten([i \in 1..n |-> page_responses[i].items])

FetchReturned == fetch_pc = "done" /\ fetch_ret.kind = "returned"

\* C1: when no page of the upstream fails, the paged fetch returns the first
\* min(cap, total) items the upstream has when cap > 0, and all of them when
\* cap = 0, in upstream order; a page that overshoots the cap is cut.
C1_FetchAllCount ==
    (FetchReturned /\ NoPageFails(upstream)) =>
        /\ fetch_ret.value =
              IF max_results > 0 THEN Take(Available(upstream), max_results)
                                 ELSE Available(upstream)
        /\ Len(fetch_ret.value) =
              IF max_results > 0 THEN Min(max_results, Len(Available(upstream)))
                                 ELSE Len(Available(upstream))

\* C1 witness: a call that returned after a second page took it over the cap.
C1_Witness ==
    /\ FetchReturned /\ NoPageFails(upstream)
    /\ max_results > 0
    /\ Len(page_requests) = 2
    /\ Len(all_followers) > max_results
    /\ Len(fetch_ret.value) = max_results

\* C2: a page answered without a cursor is the last one requested in the call,
\* and its items are appended to what was collected (the list returned is that,
\* cut to the cap).
C2_StopsAtCursorlessPage ==
    \A i \in 1..Len(page_responses) :
        (page_responses[i].kind = "ok" /\ ~Truthy(page_responses[i].cursor)) =>
            /\ i = Len(page_requests)
            /\ fetch_pc \in {"post", "done"}
            /\ all_followers = Received(i)
            /\ fetch_pc = "done" =>
                  /\ fetch_ret.kind = "returned"
                  /\ fetch_ret.value = Truncate(max_results, Received(i))

\* C2 witness: the second page came without a cursor and with items, and the
\* call returned both pages' items.
C2_Witness ==
    /\ FetchReturned
    /\ Len(page_responses) = 2
    /\ page_responses[2].kind = "ok"
    /\ page_responses[2].cursor = None
    /\ page_responses[2].items # <<>>
    /\ fetch_ret.value = page_responses[1].items \o page_responses[2].items

\* C3: on an authenticated session a failed page fetch is the last request of
\* the call, nothing is raised, and the call returns the items of the pages
\* fetched before it, cut to the cap.
C3_FailureGivesPartialResult ==
    \A i \in 1..Len(page_responses) :
        page_responses[i].kind = "fail" =>
            /\ i = Len(page_requests)
            /\ fetch_pc \in {"post", "done"}
            /\ fetch_ret.kind # "raised"
            /\ all_followers = Received(i - 1)
            /\ fetch_pc = "done" =>
                  /\ fetch_ret.kind = "returned"
                  /\ fetch_ret.value = Truncate(max_results, Received(i - 1))

\* C3 witness: the first page arrived with items, the second fetch failed, and
\* the first page's items were returned.
C3_Witness ==
    /\ FetchReturned
    /\ Len(page_responses) = 2
    /\ page_responses[1].kind = "ok"
    /\ page_responses[2].kind = "fail"
    /\ fetch_ret.value # <<>>
    /\ fetch_ret.value = Truncate(max_results, page_responses[1].items)

----------------------------------------------------------------------------
(* Properties of the client, checked under SpecClient *)

\* C6: while no login has succeeded on the client, the last data operation made
\* on it issued no request and raised its not-authenticated error, and the paged
\* fetch issued no page request and raised "Not authenticated.".
C6_NoFetchUnauthenticated ==
    ~authenticated =>
        /\ last_call.op \in DataOps =>
              /\ last_call.http = <<>>
              /\ last_call.raised
              /\ last_call.error = NotAuthenticatedError(last_call.op)
        /\ page_requests = <<>>
        /\ fetch_pc # "loop"
        /\ fetch_pc = "done" =>
              /\ fetch_ret.kind = "raised"
              /\ fetch_ret.error = "Not authenticated."

\* C6 witness: a login was attempted and failed after reaching the upstream's
\* token check, and a data operation made afterwards was refused.
C6_Witness ==
    /\ ~authenticated
    /\ bsky_auth_token = ""
    /\ last_call.op = "get_bsky_posts"
    /\ last_call.raised /\ last_call.http = <<>>

----------------------------------------------------------------------------
(* Properties of the server, checked under Spec *)

\* Whether string sub occurs in string s.
Contains(s, sub) ==
    \E i \in 1..(Len(s) - Len(sub) + 1) : SubSeq(s, i, i + Len(sub) - 1) = sub

\* The last iteration handled a tools/call request.
ToolCalled == last_line.kind = "request" /\ last_line.method = "tools/call"

Credentials == Truthy(BSKY_HANDLE) /\ Truthy(BSKY_PASSWORD)

DataEndpoints == {EndpointOf(op) : op \in DataOps}

\* The requests of the last iteration that went to a data endpoint.
DataFetches == {i \in 1..Len(last_line.http) : last_line.http[i] \in DataEndpoints}

\* C4: a tool invocation made with no credentials configured and no session
\* yet is answered with an error envelope and issues no HTTP request, login
\* requests included, whatever the tool name and arguments.
C4_NoCredentialsNoNetwork ==
    (ToolCalled /\ ~Credentials /\ ~last_line.auth_before /\ ~Truthy(last_line.did_before)) =>
        /\ last_line.envelope.isError
        /\ last_line.http = <<>>
        /\ last_line.login = "none"
        /\ last_line.response.kind = "error"

\* C4 witness: only one of the two environment variables is set, the config
\* file does hold credentials, and a catalog tool was called.
C4_Witness ==
    /\ ToolCalled
    /\ BSKY_HANDLE = "alice" /\ BSKY_PASSWORD = None
    /\ config.bsky_identifier # None
    /\ last_line.name = "dream_bsky_get_profile"
    /\ last_line.envelope.isError
    /\ last_line.http = <<>>

UnknownToolCalled == ToolCalled /\ last_line.name \notin ToolNames

\* C5 as claimed: an unknown tool name is answered with isError true and a
\* message containing the name, and no network request is issued, in every
\* dispatcher state.
C5_UnknownToolNeverTouchesNetwork ==
    UnknownToolCalled =>
        /\ last_line.envelope.isError
        /\ Contains(last_line.envelope.text, last_line.name)
        /\ last_line.http = <<>>

\* C5 as amended: an unknown tool name is always answered with isError true and
\* never reaches a data endpoint. When the server already holds an identity,
\* no request at all is issued and the message contains the name. When it holds
\* none, the lazy login comes first: without credentials nothing is requested
\* and the message is the missing-credentials one; with credentials exactly one
\* login exchange is issued, and the message contains the name exactly when
\* that login succeeds.
C5_UnknownToolAfterLazyLogin ==
    UnknownToolCalled =>
        /\ last_line.envelope.isError
        /\ DataFetches = {}
        /\ Truthy(last_line.did_before) =>
              /\ last_line.http = <<>>
              /\ Contains(last_line.envelope.text, last_line.name)
        /\ (~Truthy(last_line.did_before) /\ ~Credentials) =>
              /\ last_line.http = <<>>
              /\ ~Contains(last_line.envelope.text, last_line.name)
        /\ (~Truthy(last_line.did_before) /\ Credentials) =>
              /\ last_line.http = <<"createSession">>
              /\ Contains(last_line.envelope.text, last_line.name)
                    <=> last_line.login = "ok"

\* C5 witness: an unknown tool was called on a server holding no identity, the
\* lazy login succeeded, and the answer names the tool.
C5_Witness ==
    /\ UnknownToolCalled
    /\ ~Truthy(last_line.did_before)
    /\ last_line.login = "ok"
    /\ last_line.http = <<"createSession">>
    /\ last_line.envelope = Envelope("Tool not found: dream_bsky_post", TRUE)

\* C7 as claimed: once a login exchange has succeeded in the process, a tool
\* invocation issues no login request, whatever the successful response held.
C7_NoLoginAfterSuccess ==
    (ToolCalled /\ last_line.auth_before) =>
        /\ last_line.login = "none"
        /\ \A i \in 1..Len(last_line.http) : last_line.http[i] # "createSession"

\* C8: when the server holds no identity, credentials exist and the lazy login
\* fails, the answer is an error envelope carrying the authentication failure,
\* the tool's branch is not entered, and nothing but the login is requested.
C8_FailedLazyLoginEndsInvocation ==
    (ToolCalled /\ last_line.login = "failed") =>
        /\ ~Truthy(last_line.did_before) /\ Credentials
        /\ last_line.envelope.isError
        /\ Contains(last_line.envelope.text,
                    "Authentication failed: BlueSky authentication failed: ")
        /\ ~last_line.entered
        /\ DataFetches = {}
        /\ last_line.http = <<"createSession">>
        /\ last_line.response.kind = "error"

\* C8 witness: a catalog tool with its arguments was called and the lazy login
\* was answered without a token.
C8_Witness ==
    /\ ToolCalled
    /\ last_line.name = "dream_bsky_get_feed"
    /\ last_line.login = "failed"
    /\ last_line.envelope.text =
         "Authentication failed: BlueSky authentication failed: No access token returned"

\* C9: when a downstream call raises while a tools/call request is handled,
\* the envelope has isError true, exactly one response line answers the
\* request, it is a JSON-RPC error carrying the envelope's text, and the loop
\* is still running.
C9_DownstreamErrorAnswered ==
    (ToolCalled /\ last_line.raised) =>
        /\ last_line.envelope.isError
        /\ last_line.response =
             [kind |-> "error", code |-> ErrorCode, message |-> last_line.envelope.text]
        /\ stdout # <<>>
        /\ stdout[Len(stdout)] = [id |-> lines_read, kind |-> "error"]
        /\ \A i \in 1..(Len(stdout) - 1) : stdout[i].id < lines_read
        /\ ~last_line.stopped
        /\ server_pc = "running"

\* C9 witness: a data fetch raised while the first request was handled, and
\* the second request was read and answered with a result.
C9_Witness ==
    /\ ToolCalled
    /\ last_line.after_raise
    /\ ~last_line.raised
    /\ stdout = <<[id |-> 1, kind |-> "error"], [id |-> 2, kind |-> "result"]>>
    /\ Len(last_line.http) = 1
    /\ server_pc = "running"

\* C10: the response lines answer distinct input lines in the order read, each
\* printed in the iteration that read its line; a request with any other
\* method than initialize, tools/list and tools/call prints nothing and leaves
\* the loop running.
C10_OneResponsePerLine ==
    /\ Len(stdout) <= lines_read
    /\ \A i \in 1..Len(stdout) : stdout[i].id \in 1..lines_read
    /\ \A i, j \in 1..Len(stdout) : i < j => stdout[i].id < stdout[j].id
    /\ last_line.kind = "request" =>
          IF last_line.method \in {"initialize", "tools/list", "tools/call"}
            THEN /\ stdout # <<>>
                 /\ stdout[Len(stdout)].id = lines_read
                 /\ last_line.response.kind = stdout[Len(stdout)].kind
            ELSE /\ last_line.response.kind = "none"
                 /\ \A i \in 1..Len(stdout) : stdout[i].id < lines_read
                 /\ ~last_line.stopped
                 /\ server_pc = "running"

\* C10 witness: the first request was answered, the second had an unknown
\* method and was skipped, and the loop is still running.
C10_Witness ==
    /\ lines_read = 2
    /\ last_line.kind = "request"
    /\ last_line.method = "ping"
    /\ stdout = <<[id |-> 1, kind |-> "result"]>>
    /\ server_pc = "running"

\* C11 as claimed: when the vibe check's text extraction is given a feed with
\* no post text, the answer is the "No text found for <handle> to analyze."
\* envelope, not the outer except's "Error executing" envelope, and the
\* completion service is not called.
C11_NoTextShortCircuits ==
    (ToolCalled /\ last_line.name = "dream_bsky_vibe_check"
                /\ last_line.extraction = "empty") =>
        /\ last_line.envelope = Envelope("No text found for alice to analyze.", FALSE)
        /\ ~Contains(last_line.envelope.text, "Error executing ")
        /\ \A i \in 1..Len(last_line.http) : last_line.http[i] # "chat.completions"

----------------------------------------------------------------------------
(* Further properties of the paged fetch, checked under SpecFetch *)

\* C12 as claimed: every page request of the paged fetch carries a page size of
\* at most 100, a larger batch_size being clamped.
C12_PageSizeClamped ==
    \A i \in 1..Len(page_requests) : page_requests[i].limit <= 100

\* C13: with a cap, request i is issued only while the items received before
\* it are fewer than the cap, and, past the first, only with the truthy cursor
\* the answer before it handed out; so when every page received carries an
\* item, no more than cap requests are issued. A page with no items and a
\* cursor does not end the loop: unless the cap is already reached, the next
\* request follows it.
C13_RequestsOnlyBelowCapWithCursor ==
    /\ \A i \in 1..Len(page_requests) :
          /\ max_results > 0 => Len(Received(i - 1)) < max_results
          /\ i = 1 => page_requests[i].cursor = None
          /\ i > 1 => /\ page_responses[i - 1].kind = "ok"
                      /\ Truthy(page_responses[i - 1].cursor)
                      /\ page_requests[i].cursor = page_responses[i - 1].cursor
    /\ (max_results > 0 /\ \A i \in 1..Len(page_responses) :
                               page_responses[i].kind = "ok" =>
                                   page_responses[i].items # <<>>) =>
          Len(page_requests) <= max_results
    /\ \A i \in 1..Len(page_responses) :
          (/\ page_responses[i].kind = "ok"
           /\ page_responses[i].items = <<>>
           /\ Truthy(page_responses[i].cursor)) =>
              \/ Len(page_requests) > i
              \/ i = Len(page_requests) /\ fetch_pc = "loop"
                                        /\ LoopCond(max_results, all_followers)
    /\ fetch_pc = "done" /\ fetch_ret.kind = "returned" /\ max_results > 0 =>
          \/ Len(all_followers) >= max_results
          \/ IsLastPage(page_responses[Len(page_responses)])

\* C13 witness: under a cap, the first page came empty with a cursor, the
\* second was requested with that cursor, and the call returned.
C13_Witness ==
    /\ FetchReturned
    /\ max_results > 0
    /\ Len(page_requests) = 2
    /\ page_responses[1].items = <<>>
    /\ page_requests[2].cursor = CursorTok(1)
    /\ page_responses[2].items # <<>>

----------------------------------------------------------------------------
(* Further properties of the client, checked under SpecClient *)

\* The did a login answered with token tok can have handed out.
DidsOf(tok) == {a.did : a \in {x \in LoginAnswers : x.kind = "ok" /\ x.accessJwt = tok}}

\* C14 as claimed: a failed login leaves token, did and headers as they were,
\* so the three fields are either all unset or all those of one successful
\* login.
C14_SessionFieldsFromOneLogin ==
    \/ bsky_auth_token = None /\ bsky_headers = None /\ bsky_did = None
    \/ /\ Truthy(bsky_auth_token)
       /\ bsky_headers = Headers(bsky_auth_token)
       /\ bsky_did \in DidsOf(bsky_auth_token)

====
